---------------------------- MODULE Spec2Model ----------------------------
(***************************************************************************)
(* A model of the pattern-matching engine of chromosight                   *)
(* (src/chromosight/utils/detection.py) and of the iterative detector of   *)
(* chromovision (src/chromovision/detector.py).                            *)
(*                                                                         *)
(* Indices of arrays are 1-based here and 0-based in the source; matrix    *)
(* coordinates (rows, columns, bins) are 0-based as in the source.         *)
(* A sparse matrix in COO format is a sequence of entries in the order of  *)
(* its row/col/data arrays.                                                *)
(***************************************************************************)
EXTENDS Integers, Sequences, FiniteSets, TLC

VARIABLES
    pc,              \* position of the modelled call
    matrix,          \* label_connected_pixels_sparse: input entries <<row, col>>
    min_focus_size,  \* label_connected_pixels_sparse: argument
    num_foci,        \* label_connected_pixels_sparse: first return value
    foci_mat,        \* label_connected_pixels_sparse: entries <<row, col, label>>
    relabel_num,     \* num_foci of a second call on foci_mat
    mat_conv,        \* picker: the correlation map, entries <<row, col, value>>
    precision,       \* picker: argument
    foci_coords,     \* picker: return value, None or a sequence of <<row, col>>
    variant,         \* explore_patterns: "chromosight" or "chromovision"
    max_iterations,  \* kernel_config["max_iterations"]; "iterations" in chromovision
    n_kernels,       \* the number of template kernels supplied
    all_patterns,
    hashed_neighborhoods,
    old_pattern_count,
    current_pattern_count,
    list_current_pattern_count,
    iteration_count, \* iteration_count of chromovision; the loop variable i of chromosight
    kernel_idx,      \* the place in the kernel list of the kernel being matched
    kernels,         \* per pass, the pileups appended; agglomerated_patterns[1:]
    n_rows,          \* the rows of the current table (detected_coords) read so far
    nb_patterns,     \* of these, the rows that are not 'NA' rows
    passes,          \* history: the matching passes started
    better_discarded, \* history: a row was dropped whose score exceeds that of the pattern kept in its bucket
    coords,          \* validate_patterns: the candidate coordinates <<row, col>>
    kernel_shape,    \* kernel_matrix.shape
    hic_zeros,       \* the pixels of the contact map that hold 0
    detectable_bins, \* <<detectable rows, detectable columns>>
    max_undetected_perc,
    validated,       \* what validate_patterns returned, or the error it raised
    pileup_pattern,  \* what explore_patterns receives as pattern_detector's second value
    signal,          \* xcorr2, corrcoef2d: the contact map
    kernel,          \* the pattern template
    max_dist,        \* NoMaxDist for None
    sym_upper,
    out,             \* what xcorr2 returned, or the error it raised
    corr,            \* what corrcoef2d returned, or the error it raised
    detected,        \* how pattern_detector (chromosight) ended
    patterns,        \* remove_smears: the table, rows <<bin1, bin2, score>>
    win_size,
    good_patterns_mask,
    area,            \* pattern_detector (chromovision): area
    cv_pattern_windows, \* pattern_detector (chromovision): pattern_windows
    agglomerated_pattern,
    cv_nb_patterns   \* pattern_detector (chromovision): nb_patterns

labelVars == <<matrix, min_focus_size, num_foci, foci_mat, relabel_num>>
pickVars == <<mat_conv, precision, foci_coords>>
exploreVars == <<variant, max_iterations, n_kernels, all_patterns,
                 hashed_neighborhoods, old_pattern_count, current_pattern_count,
                 list_current_pattern_count, iteration_count, kernel_idx, kernels,
                 n_rows, nb_patterns, passes, better_discarded>>
validateVars == <<coords, kernel_shape, hic_zeros, detectable_bins,
                  max_undetected_perc, validated, pileup_pattern>>
corrVars == <<signal, kernel, max_dist, sym_upper, out, corr, detected>>
smearVars == <<patterns, win_size, good_patterns_mask>>
agglomVars == <<area, cv_pattern_windows, agglomerated_pattern, cv_nb_patterns>>
vars == <<pc, labelVars, pickVars, exploreVars, validateVars, corrVars,
          smearVars, agglomVars>>

\* A return value that is either None or an array of coordinates.
NoneCoords == [is_none |-> TRUE, coords |-> <<>>]
SomeCoords(c) == [is_none |-> FALSE, coords |-> c]

(***************************************************************************)
(* Bounds of the model.                                                    *)
(***************************************************************************)
NRows == 3
NCols == 3
MaxPix == 4
MaxConvPix == 3

Abs(x) == IF x < 0 THEN -x ELSE x

Pixels == (0 .. NRows - 1) \X (0 .. NCols - 1)

(***************************************************************************)
(* Orders in which a COO matrix can list its entries.  csr.tocoo() lists   *)
(* them row by row; dia.tocoo(), which pattern_detector applies to the     *)
(* correlation map before picker is called, lists them diagonal by         *)
(* diagonal.                                                               *)
(***************************************************************************)
\* A numpy array: the function f over 1 .. n held as a tuple of its values.
Array(f) == <<>> \o f

RowMajorLess(p, q) == p[1] < q[1] \/ (p[1] = q[1] /\ p[2] < q[2])
ColMajorLess(p, q) == p[2] < q[2] \/ (p[2] = q[2] /\ p[1] < q[1])
DiagMajorLess(p, q) ==
    \/ p[2] - p[1] < q[2] - q[1]
    \/ (p[2] - p[1] = q[2] - q[1] /\ p[2] < q[2])

Orders == {"row", "diag"}

OrderLess(o, p, q) == IF o = "row" THEN RowMajorLess(p, q) ELSE DiagMajorLess(p, q)

\* The entries of the pixel set S as a COO sequence in order o.
CooOf(S, o) ==
    Array([i \in 1 .. Cardinality(S) |->
        CHOOSE p \in S : Cardinality({q \in S : OrderLess(o, q, p)}) = i - 1])

(***************************************************************************)
(* label_connected_pixels_sparse                                           *)
(***************************************************************************)
\* A transition test that looks at the row shift only.
get_1d_foci_transition_rows_only(m) ==
    Array([i \in 1 .. Len(m) |->
        /\ i < Len(m)
        /\ Abs(m[i + 1][1] - m[i][1]) < 2])

\* get_1d_foci_transition(m): stay_foci[i] is TRUE when entry i+1 is at most
\* one row and one column away from entry i; FALSE for the last entry.
get_1d_foci_transition(m) ==
    Array([i \in 1 .. Len(m) |->
        /\ i < Len(m)
        /\ Abs(m[i + 1][1] - m[i][1]) < 2
        /\ Abs(m[i + 1][2] - m[i][2]) < 2])

\* trans_ids.data: the original ids of the candidates, in the order of the
\* transposed matrix after tocsr().tocoo(), i.e. sorted by column, then row.
trans_ids(m) ==
    Array([i \in 1 .. Len(m) |->
        CHOOSE j \in 1 .. Len(m) :
            Cardinality({k \in 1 .. Len(m) : ColMajorLess(m[k], m[j])}) = i - 1])

\* candidates.T.tocsr().tocoo(): the entries of the transpose, sorted.
Transposed(m, t) == Array([i \in 1 .. Len(m) |-> <<m[t[i]][2], m[t[i]][1]>>])

\* fill_adjacency_1d, both calls: the nonzero entries of adj_mat.
adj_mat(m) ==
    LET t == trans_ids(m)
        hori == get_1d_foci_transition(m)
        verti == get_1d_foci_transition(Transposed(m, t))
    IN  {<<i, i + 1>> : i \in {k \in 1 .. Len(m) : hori[k]}}
        \cup {<<t[i], t[i + 1]>> : i \in {k \in 1 .. Len(m) : verti[k]}}

RECURSIVE Reach(_, _)
Reach(S, adj) ==
    LET T == S \cup {e[2] : e \in {f \in adj : f[1] \in S}}
                \cup {e[1] : e \in {f \in adj : f[2] \in S}}
    IN  IF T = S THEN S ELSE Reach(T, adj)

SetMin(S) == CHOOSE x \in S : \A y \in S : x <= y

\* sp.csgraph.connected_components(adj_mat), weak connectivity: the number of
\* components and, per node, its component's label; labels are numbered
\* from 0 in the order of each component's first node.
connected_components(n, adj) ==
    LET root == Array([i \in 1 .. n |-> SetMin(Reach({i}, adj))])
        roots == {root[i] : i \in 1 .. n}
    IN  [num |-> Cardinality(roots),
         labels |-> Array([i \in 1 .. n |-> Cardinality({r \in roots : r < root[i]})])]

\* The array foci after "foci += 1", without the removal loop.
FociKeepAll(n, cc, mfs) == Array([i \in 1 .. n |-> cc.labels[i] + 1])

\* The array foci after "foci += 1" and the removal loop of lines 502-504.
FociDropSmall(n, cc, mfs) ==
    LET foci == Array([i \in 1 .. n |-> cc.labels[i] + 1])
        size(l) == Cardinality({i \in 1 .. n : foci[i] = l})
    IN  Array([i \in 1 .. n |-> IF size(foci[i]) < mfs THEN 0 ELSE foci[i]])

\* The elements of s at the indices where keep holds, last first.
RECURSIVE SelectIdxBackwards(_, _, _)
SelectIdxBackwards(s, keep, i) ==
    IF i > Len(s) THEN <<>>
    ELSE SelectIdxBackwards(s, keep, i + 1) \o (IF keep[i] THEN <<s[i]>> ELSE <<>>)

\* The subsequence of s at the indices where keep holds.
RECURSIVE SelectIdx(_, _, _)
SelectIdx(s, keep, i) ==
    IF i > Len(s) THEN <<>>
    ELSE (IF keep[i] THEN <<s[i]>> ELSE <<>>) \o SelectIdx(s, keep, i + 1)

label_connected_pixels_sparse(m, mfs) ==
    LET n == Len(m)
        cc == connected_components(n, adj_mat(m))
        foci == FociDropSmall(n, cc, mfs)
        good_foci == Array([i \in 1 .. n |-> foci[i] > 0])
        entries == Array([i \in 1 .. n |-> <<m[i][1], m[i][2], foci[i]>>])
    IN  [num_foci |-> cc.num, foci_mat |-> SelectIdx(entries, good_foci, 1)]

\* The row and col arrays of a labelled matrix, as the input of another call.
CoordsOf(fm) == Array([i \in 1 .. Len(fm) |-> <<fm[i][1], fm[i][2]>>])

MinFocusSizes == 1 .. 3

\* The variables of picker while another function is modelled.
NoResult == [error |-> "", filtered_coords |-> <<>>, filtered_windows |-> <<>>]

\* An array: its number of dimensions and its content.
NoArray == [ndim |-> 0, data |-> <<>>]

ValidateIdle ==
    /\ coords = <<>> /\ kernel_shape = <<0, 0>> /\ hic_zeros = {}
    /\ detectable_bins = <<{}, {}>> /\ max_undetected_perc = 0
    /\ validated = NoResult
    /\ pileup_pattern = NoArray

NoMaxDist == -1

NoCorr == [error |-> "", shape |-> <<0, 0>>, scale |-> 1, data |-> <<>>]

CorrIdle ==
    /\ signal = [sparse |-> TRUE, shape |-> <<0, 0>>, scale |-> 1, data |-> <<>>]
    /\ kernel = [sparse |-> FALSE, shape |-> <<0, 0>>, div |-> 1, at |-> <<>>]
    /\ max_dist = NoMaxDist
    /\ sym_upper = FALSE
    /\ out = NoCorr
    /\ corr = NoCorr
    /\ detected = ""

\* The variables of remove_smears while another function is modelled.
SmearIdle == patterns = <<>> /\ win_size = 0 /\ good_patterns_mask = <<>>

\* The variables of pattern_detector (chromovision) likewise.
AgglomIdle ==
    /\ area = 0 /\ cv_pattern_windows = <<>>
    /\ agglomerated_pattern = NoArray /\ cv_nb_patterns = 0

PickIdle == mat_conv = <<>> /\ precision = 0 /\ foci_coords = NoneCoords

\* The variables of explore_patterns while another function is modelled.
ExploreIdle ==
    /\ variant = "" /\ max_iterations = 0 /\ n_kernels = 0
    /\ all_patterns = {} /\ hashed_neighborhoods = {}
    /\ old_pattern_count = 0 /\ current_pattern_count = 0
    /\ list_current_pattern_count = <<>> /\ iteration_count = 0 /\ kernel_idx = 0
    /\ kernels = <<>> /\ n_rows = 0 /\ nb_patterns = 0 /\ passes = 0
    /\ better_discarded = FALSE

(***************************************************************************)
(* Calls of label_connected_pixels_sparse on every candidate matrix of the *)
(* bounds, followed by a second call on the labelled matrix.               *)
(***************************************************************************)
InitLabel ==
    /\ pc = "label"
    /\ \E S \in SUBSET Pixels, o \in Orders :
          /\ S # {}
          /\ Cardinality(S) <= MaxPix
          /\ matrix = CooOf(S, o)
    /\ min_focus_size \in MinFocusSizes
    /\ num_foci = 0
    /\ foci_mat = <<>>
    /\ relabel_num = 0
    /\ PickIdle
    /\ ExploreIdle
    /\ ValidateIdle
    /\ CorrIdle
    /\ SmearIdle
    /\ AgglomIdle

Label ==
    /\ pc = "label"
    /\ \E res \in {label_connected_pixels_sparse(matrix, min_focus_size)} :
           /\ num_foci' = res.num_foci
           /\ foci_mat' = res.foci_mat
    /\ pc' = "labelled"
    /\ UNCHANGED <<matrix, min_focus_size, relabel_num, pickVars, exploreVars, validateVars, corrVars, smearVars, agglomVars>>

Relabel ==
    /\ pc = "labelled"
    /\ relabel_num' =
          label_connected_pixels_sparse(CoordsOf(foci_mat), min_focus_size).num_foci
    /\ pc' = "relabelled"
    /\ UNCHANGED <<matrix, min_focus_size, num_foci, foci_mat, pickVars, exploreVars, validateVars, corrVars, smearVars, agglomVars>>

NextLabel == Label \/ Relabel

SpecLabel == InitLabel /\ [][NextLabel]_vars


(***************************************************************************)
(* picker                                                                  *)
(*                                                                         *)
(* Correlation values are integers (a fixed-point scale).  Medians of an   *)
(* even number of values are halves, so the threshold is kept on a scale   *)
(* of 4: Median2 is twice the median, Mad4 four times the MAD.             *)
(***************************************************************************)
\* The values of s in ascending order.
SortedSeq(s) ==
    Array([i \in 1 .. Len(s) |->
        CHOOSE v \in {s[j] : j \in 1 .. Len(s)} :
            /\ Cardinality({j \in 1 .. Len(s) : s[j] < v}) < i
            /\ i <= Cardinality({j \in 1 .. Len(s) : s[j] <= v})])

\* Twice np.median(s), for a nonempty s.
Median2(s) ==
    LET n == Len(s)
        t == SortedSeq(s)
    IN  IF n % 2 = 1 THEN 2 * t[(n + 1) \div 2] ELSE t[n \div 2] + t[n \div 2 + 1]

\* Four times preproc.mad(s), the median absolute deviation of s.
Mad4(s) ==
    LET med2 == Median2(s)
    IN  Median2(Array([i \in 1 .. Len(s) |-> Abs(2 * s[i] - med2)]))

DataOf(mc) == Array([i \in 1 .. Len(mc) |-> mc[i][3]])

\* Four times thres of line 347.
Thres4(mc, prec) == 2 * Median2(DataOf(mc)) + prec * Mad4(DataOf(mc))

\* Candidates that must exceed the threshold.
candidate_mat_strict(mc, prec) ==
    LET thres4 == Thres4(mc, prec)
    IN  CoordsOf(SelectIdx(mc, Array([i \in 1 .. Len(mc) |-> 4 * mc[i][3] > thres4]), 1))

\* candidate_mat after lines 349-352: the entries of mat_conv that are not
\* below the threshold, in the order of mat_conv.
candidate_mat(mc, prec) ==
    LET thres4 == Thres4(mc, prec)
    IN  CoordsOf(SelectIdx(mc, Array([i \in 1 .. Len(mc) |-> ~(4 * mc[i][3] < thres4)]), 1))

\* mat_conv[row, col] of a pixel the map stores.
ConvAt(mc, p) == mc[CHOOSE i \in 1 .. Len(mc) : <<mc[i][1], mc[i][2]>> = p][3]

\* An argmax that returns the last index holding the maximum.
ArgMaxLast(s) == CHOOSE i \in 1 .. Len(s) :
    /\ \A j \in 1 .. Len(s) : s[j] <= s[i]
    /\ \A j \in i + 1 .. Len(s) : s[j] < s[i]

\* np.argmax: the first index of s holding its maximum.
ArgMax(s) == CHOOSE i \in 1 .. Len(s) :
    /\ \A j \in 1 .. Len(s) : s[j] <= s[i]
    /\ \A j \in 1 .. i - 1 : s[j] < s[i]

\* np.unique(labelled_mat.data): the labels present, ascending.
UniqueLabels(fm) ==
    LET L == {fm[i][3] : i \in 1 .. Len(fm)}
    IN  Array([k \in 1 .. Cardinality(L) |->
            CHOOSE l \in L : Cardinality({x \in L : x < l}) = k - 1])

DefaultMinFocusSize == 2

\* The best pixel of the focus labelled focus_id (lines 367-377).
BestPixel(mc, fm, focus_id) ==
    LET focus_idx == SelectIdx(Array([i \in 1 .. Len(fm) |-> i]),
                               Array([i \in 1 .. Len(fm) |-> fm[i][3] = focus_id]), 1)
        vals == Array([k \in 1 .. Len(focus_idx) |->
                    ConvAt(mc, <<fm[focus_idx[k]][1], fm[focus_idx[k]][2]>>)])
        original_pixel_idx == focus_idx[ArgMax(vals)]
    IN  <<fm[original_pixel_idx][1], fm[original_pixel_idx][2]>>

\* foci_coords: np.zeros([num_foci, 2]) with row focus_rank overwritten for
\* each label present in the labelled matrix.
FillFociCoords(mc, nf, fm) ==
    LET ids == UniqueLabels(fm)
    IN  Array([k \in 1 .. nf |-> IF k <= Len(ids) THEN BestPixel(mc, fm, ids[k]) ELSE <<0, 0>>])

picker(mc, prec) ==
    LET cand == candidate_mat(mc, prec)
        lab == label_connected_pixels_sparse(cand, DefaultMinFocusSize)
    IN  IF Len(cand) > 0
        THEN [candidate_mat |-> cand,
              num_foci |-> lab.num_foci, labelled_mat |-> lab.foci_mat,
              foci_coords |-> SomeCoords(FillFociCoords(mc, lab.num_foci, lab.foci_mat))]
        ELSE [candidate_mat |-> cand,
              num_foci |-> 0, labelled_mat |-> <<>>, foci_coords |-> NoneCoords]

ConvValues == {1, 2}
Precisions == {0, 1, 2}

\* The correlation maps: every pixel set within the bounds, in either order,
\* with every assignment of values.
InitPick ==
    /\ pc = "pick"
    /\ \E S \in SUBSET Pixels, o \in Orders :
          /\ S # {}
          /\ Cardinality(S) <= MaxConvPix
          /\ LET coo == CooOf(S, o)
             IN  \E val \in [1 .. Len(coo) -> ConvValues] :
                    mat_conv = [i \in 1 .. Len(coo) |-> <<coo[i][1], coo[i][2], val[i]>>]
    /\ precision \in Precisions
    /\ foci_coords = NoneCoords
    /\ matrix = <<>>
    /\ min_focus_size = DefaultMinFocusSize
    /\ num_foci = 0
    /\ foci_mat = <<>>
    /\ relabel_num = 0
    /\ ExploreIdle
    /\ ValidateIdle
    /\ CorrIdle
    /\ SmearIdle
    /\ AgglomIdle

\* picker(mat_conv, matrix, precision); num_foci and foci_mat hold its local
\* variables num_foci and labelled_mat, matrix its candidate_mat.
Picker ==
    /\ pc = "pick"
    /\ \E res \in {picker(mat_conv, precision)} :
           /\ foci_coords' = res.foci_coords
           /\ num_foci' = res.num_foci
           /\ foci_mat' = res.labelled_mat
           /\ matrix' = res.candidate_mat
    /\ pc' = "picked"
    /\ UNCHANGED <<mat_conv, precision, min_focus_size, relabel_num, exploreVars, validateVars, corrVars, smearVars, agglomVars>>

NextPick == Picker

SpecPick == InitPick /\ [][NextPick]_vars

(***************************************************************************)
(* explore_patterns, chromosight (detection.py) and chromovision           *)
(* (detector.py).                                                          *)
(*                                                                         *)
(* pattern_detector is a call into the matching pipeline; what it returns  *)
(* for a kernel is drawn from the results its code can produce.  Its       *)
(* table is read as its docstring gives it (one row per detected pattern:  *)
(* row, column, score), one row per step of the "for new_coords" loop.     *)
(* In chromovision a row is (chromosome, pos1, pos2, score), and the row   *)
(* ('NA', 'NA', 'NA') of a rejected window is written <<chrom, -1, -1, -1>>.*)
(***************************************************************************)
window == 4
MAX_ITERATIONS == 3

MaxIter == 3
MaxKernels == 2
MaxDet == 2

Scores == {1, 2}

\* Coordinates picker can return on an upper-triangular correlation map:
\* one in the bucket (0, 1) and two in the bucket (1, 1) of window 4.
DetCoords == {<<3, 5>>, <<4, 5>>, <<5, 5>>}

CsRows == {<<c[1], c[2], s>> : c \in DetCoords, s \in Scores}

\* The rows of chromovision: those of chromosight on a first chromosome, one
\* row in the bucket (1, 1) of a second chromosome, and an 'NA' row.
CvRows == {<<"chr1", c[1], c[2], s>> : c \in DetCoords, s \in Scores}
          \cup {<<"chr2", 4, 5, 1>>, <<"chr1", -1, -1, -1>>}

\* A hash that keeps the coordinates undivided.
neigh_hash_exact(xy, w) == <<xy[1], xy[2]>>

\* neigh_hash of chromosight (lines 250-251).
neigh_hash(xy, w) == <<xy[1] \div w, xy[2] \div w>>

\* neigh_hash of chromovision (lines 324-329); "NA" is written <<"NA">>.
cv_neigh_hash(xy, w) ==
    IF xy[2] = -1 \/ xy[3] = -1
    THEN <<"NA">>
    ELSE <<xy[1], xy[2] \div w, xy[3] \div w>>

\* "iterations" of chromovision: "auto" or an integer.
Auto == [auto |-> TRUE, n |-> 0]
Iter(n) == [auto |-> FALSE, n |-> n]

\* A break condition without the test against MAX_ITERATIONS.
CvBudgetWithoutMax(count, iters) == ~iters.auto /\ count >= iters.n

\* The break condition of lines 336-338.
CvBudgetReached(count, iters) ==
    count >= MAX_ITERATIONS \/ (~iters.auto /\ count >= iters.n)

\* A while test that lets every pass start.
CvWhileAlways(old, cur) == TRUE

\* The while test of line 334.
CvWhileTest(old, cur) == old # cur

LabelIdle ==
    /\ matrix = <<>> /\ min_focus_size = 0 /\ num_foci = 0
    /\ foci_mat = <<>> /\ relabel_num = 0

InitExplore ==
    /\ pc = "loop"
    /\ variant \in {"chromosight", "chromovision"}
    /\ IF variant = "chromosight"
         THEN max_iterations \in {Iter(n) : n \in 0 .. MaxIter}
         ELSE max_iterations \in {Auto} \cup {Iter(n) : n \in 0 .. MaxIter}
    /\ n_kernels \in 1 .. MaxKernels
    /\ all_patterns = {}
    /\ hashed_neighborhoods = {}
    /\ old_pattern_count = -1
    /\ current_pattern_count = 0
    /\ list_current_pattern_count = <<>>
    /\ iteration_count = IF variant = "chromosight" THEN 1 ELSE 0
    /\ kernel_idx = 0
    /\ kernels = IF variant = "chromosight"
                   THEN [j \in 1 .. max_iterations.n |-> <<>>]
                   ELSE <<>>
    /\ n_rows = 0
    /\ nb_patterns = 0
    /\ passes = 0
    /\ better_discarded = FALSE
    /\ LabelIdle
    /\ PickIdle
    /\ ValidateIdle
    /\ CorrIdle
    /\ SmearIdle
    /\ AgglomIdle

\* An add that drops the patterns kept with a lower score.
add_dropping_lower(s, x) == {y \in s : y[Len(y)] >= x[Len(x)]} \cup {x}

\* set.add (detection.py line 280, detector.py line 358).
add(s, x) == s \cup {x}

\* The bucket of a row of either table.
PatternHash(xy) ==
    IF variant = "chromosight" THEN neigh_hash(xy, window) ELSE cv_neigh_hash(xy, window)

\* The score of a row: its last field.
PatternScore(xy) == xy[Len(xy)]

\* Whether the row read scores higher than a pattern kept in the same bucket.
BetterDiscarded(new_coords) ==
    \E kept \in all_patterns :
        /\ PatternHash(kept) = PatternHash(new_coords)
        /\ PatternScore(new_coords) > PatternScore(kept)

\* ---- chromosight -------------------------------------------------------
\* The head of "for i in range(1, max_iterations + 1)" and the test of line
\* 262: a pass starts, or the iteration is skipped.  iteration_count holds i.
CsLoop ==
    /\ variant = "chromosight" /\ pc = "loop"
    /\ iteration_count <= max_iterations.n
    /\ IF old_pattern_count # current_pattern_count
         THEN /\ old_pattern_count' = current_pattern_count
              /\ passes' = passes + 1
              /\ kernel_idx' = 1
              /\ pc' = "detect"
              /\ UNCHANGED iteration_count
         ELSE /\ iteration_count' = iteration_count + 1
              /\ UNCHANGED <<old_pattern_count, passes, kernel_idx, pc>>
    /\ UNCHANGED <<variant, max_iterations, n_kernels, all_patterns,
                   hashed_neighborhoods, current_pattern_count,
                   list_current_pattern_count, kernels, n_rows, nb_patterns,
                   better_discarded, labelVars, pickVars, validateVars, corrVars, smearVars, agglomVars>>

\* The loop is over: lines 287-288.
CsReturn ==
    /\ variant = "chromosight" /\ pc = "loop"
    /\ iteration_count > max_iterations.n
    /\ pc' = "done"
    /\ UNCHANGED <<exploreVars, labelVars, pickVars, validateVars, corrVars, smearVars, agglomVars>>

\* pattern_detector returns (None, None) (lines 164, 181): the loop of line
\* 272 over None raises TypeError.
CsDetectNone ==
    /\ variant = "chromosight" /\ pc = "detect"
    /\ pc' = "error"
    /\ UNCHANGED <<exploreVars, labelVars, pickVars, validateVars, corrVars, smearVars, agglomVars>>

\* pattern_detector returns a table (line 190).
CsDetect ==
    /\ variant = "chromosight" /\ pc = "detect"
    /\ n_rows' = 0
    /\ nb_patterns' = 0
    /\ pc' = "rows"
    /\ UNCHANGED <<variant, max_iterations, n_kernels, all_patterns,
                   hashed_neighborhoods, old_pattern_count, current_pattern_count,
                   list_current_pattern_count, iteration_count, kernel_idx, kernels, passes,
                   better_discarded, labelVars, pickVars, validateVars, corrVars, smearVars, agglomVars>>

\* One turn of the loop of lines 272-281 on the next row of the table.
CsRow ==
    /\ variant = "chromosight" /\ pc = "rows"
    /\ n_rows < MaxDet
    /\ n_rows' = n_rows + 1
    /\ nb_patterns' = nb_patterns + 1
    /\ \E new_coords \in CsRows :
          /\ IF neigh_hash(new_coords, window) \notin hashed_neighborhoods
               THEN /\ all_patterns' = add(all_patterns, new_coords)
                    /\ hashed_neighborhoods' =
                          hashed_neighborhoods \cup {neigh_hash(new_coords, window)}
               ELSE UNCHANGED <<all_patterns, hashed_neighborhoods>>
          /\ better_discarded' = (better_discarded \/ BetterDiscarded(new_coords))
    /\ UNCHANGED <<pc, variant, max_iterations, n_kernels, old_pattern_count,
                   current_pattern_count, list_current_pattern_count, iteration_count, kernel_idx,
                   kernels, passes, labelVars, pickVars, validateVars, corrVars, smearVars, agglomVars>>

\* The table is exhausted: line 283, then the next kernel or, after the last
\* kernel of the pass, line 284 and the next value of i.
CsRowsEnd ==
    /\ variant = "chromosight" /\ pc = "rows"
    /\ kernels' = [kernels EXCEPT ![iteration_count] = Append(@, <<iteration_count, kernel_idx>>)]
    /\ IF kernel_idx < n_kernels
         THEN /\ kernel_idx' = kernel_idx + 1
              /\ pc' = "detect"
              /\ UNCHANGED <<list_current_pattern_count, iteration_count>>
         ELSE /\ list_current_pattern_count' =
                    Append(list_current_pattern_count, n_rows)
              /\ iteration_count' = iteration_count + 1
              /\ pc' = "loop"
              /\ UNCHANGED kernel_idx
    /\ UNCHANGED <<variant, max_iterations, n_kernels, all_patterns,
                   hashed_neighborhoods, old_pattern_count, current_pattern_count,
                   n_rows, nb_patterns, passes, better_discarded, labelVars, pickVars, validateVars, corrVars, smearVars, agglomVars>>

\* ---- chromovision ------------------------------------------------------
\* The while test of line 334 and the break of lines 336-339; otherwise a
\* pass starts (lines 341-343).
CvLoop ==
    /\ variant = "chromovision" /\ pc = "loop"
    /\ IF ~CvWhileTest(old_pattern_count, current_pattern_count)
          \/ CvBudgetReached(iteration_count, max_iterations)
         THEN /\ pc' = "done"
              /\ UNCHANGED <<kernels, old_pattern_count, iteration_count, kernel_idx, passes>>
         ELSE /\ kernels' = Append(kernels, <<>>)
              /\ old_pattern_count' = current_pattern_count
              /\ iteration_count' = iteration_count + 1
              /\ passes' = passes + 1
              /\ kernel_idx' = 1
              /\ pc' = "detect"
    /\ UNCHANGED <<variant, max_iterations, n_kernels, all_patterns,
                   hashed_neighborhoods, current_pattern_count,
                   list_current_pattern_count, n_rows, nb_patterns,
                   better_discarded, labelVars, pickVars, validateVars, corrVars, smearVars, agglomVars>>

\* my_pattern_detector returns its list of detected patterns (line 345).
CvDetect ==
    /\ variant = "chromovision" /\ pc = "detect"
    /\ n_rows' = 0
    /\ nb_patterns' = 0
    /\ pc' = "rows"
    /\ UNCHANGED <<variant, max_iterations, n_kernels, all_patterns,
                   hashed_neighborhoods, old_pattern_count, current_pattern_count,
                   list_current_pattern_count, iteration_count, kernel_idx, kernels, passes,
                   better_discarded, labelVars, pickVars, validateVars, corrVars, smearVars, agglomVars>>

\* One turn of the loop of lines 348-359 on the next row of the list.
CvRow ==
    /\ variant = "chromovision" /\ pc = "rows"
    /\ n_rows < MaxDet
    /\ n_rows' = n_rows + 1
    /\ \E new_coords \in CvRows :
          /\ nb_patterns' = IF new_coords[2] = -1 THEN nb_patterns ELSE nb_patterns + 1
          /\ IF cv_neigh_hash(new_coords, window) \notin hashed_neighborhoods
               THEN /\ all_patterns' = add(all_patterns, new_coords)
                    /\ hashed_neighborhoods' =
                          hashed_neighborhoods \cup {cv_neigh_hash(new_coords, window)}
               ELSE UNCHANGED <<all_patterns, hashed_neighborhoods>>
          /\ better_discarded' = (better_discarded \/ BetterDiscarded(new_coords))
    /\ UNCHANGED <<pc, variant, max_iterations, n_kernels, old_pattern_count,
                   current_pattern_count, list_current_pattern_count, iteration_count, kernel_idx,
                   kernels, passes, labelVars, pickVars, validateVars, corrVars, smearVars, agglomVars>>

\* The list is exhausted (nb_patterns is the number of windows pattern_detector
\* kept, one per row that is not an 'NA' row: lines 187-191, 205): line 360, then the next kernel or, after the last
\* kernel of the pass, lines 361-362.
CvRowsEnd ==
    /\ variant = "chromovision" /\ pc = "rows"
    /\ kernels' = [kernels EXCEPT ![Len(kernels)] = Append(@, <<iteration_count, kernel_idx>>)]
    /\ IF kernel_idx < n_kernels
         THEN /\ kernel_idx' = kernel_idx + 1
              /\ pc' = "detect"
              /\ UNCHANGED <<current_pattern_count, list_current_pattern_count>>
         ELSE /\ current_pattern_count' = nb_patterns
              /\ list_current_pattern_count' =
                    Append(list_current_pattern_count, nb_patterns)
              /\ pc' = "loop"
              /\ UNCHANGED kernel_idx
    /\ UNCHANGED <<variant, max_iterations, n_kernels, all_patterns,
                   hashed_neighborhoods, old_pattern_count, iteration_count,
                   n_rows, nb_patterns, passes, better_discarded, labelVars, pickVars, validateVars, corrVars, smearVars, agglomVars>>

NextExplore ==
    \/ CsLoop \/ CsReturn \/ CsDetectNone \/ CsDetect \/ CsRow \/ CsRowsEnd
    \/ CvLoop \/ CvDetect \/ CvRow \/ CvRowsEnd

SpecExplore == InitExplore /\ [][NextExplore]_vars

\* explore_patterns is one sequential call: a step that can be taken is taken.
FairExplore == SpecExplore /\ WF_vars(NextExplore)

(***************************************************************************)
(* validate_patterns                                                       *)
(***************************************************************************)
MatN == 7
MaxKernelDim == 3
MaxCoords == 2

\* The contact map: MatN x MatN, zero at the pixels of zeros, and elsewhere a
\* value that tells the pixels apart.
MatrixAt(zeros, r, c) == IF <<r, c>> \in zeros THEN 0 ELSE r * MatN + c + 1

\* conv_mat[r, c], the correlation map; any map will do, this one tells the
\* pixels apart.
ConvMatAt(r, c) == 100 + r * MatN + c

Bins == 0 .. MatN - 1

\* Candidate coordinates: inside every window bound, inside for small kernels
\* only, below the diagonal, too close to the first row, and in the last column.
CoordChoices == {<<2, 2>>, <<2, 3>>, <<3, 2>>, <<0, 2>>, <<1, 2>>, <<2, MatN - 1>>}

RECURSIVE SeqsUpTo(_, _)
SeqsUpTo(S, n) ==
    IF n = 0 THEN {<<>>}
    ELSE SeqsUpTo(S, n - 1) \cup {Append(q, x) : q \in {t \in SeqsUpTo(S, n - 1) : Len(t) = n - 1}, x \in S}

ZeroChoices == {{}, {<<2, 2>>}, Bins \X Bins}
BadRowChoices == {{}, {2}, Bins}
BadColChoices == {{}, Bins}
PercChoices == {0, 50, 100, 150}

half(win) == win \div 2 + 1

\* A bounds test that forgets the far side of the matrix.
InBoundsNearSideOnly(p1, p2, win_h, win_w) ==
    /\ p1 - (win_h \div 2 + 1) >= 0
    /\ p2 - (win_w \div 2 + 1) >= 0

\* The bounds test of lines 72-77 on the canonical coordinate (p1, p2).
InBounds(p1, p2, win_h, win_w) ==
    /\ p1 - half(win_h) >= 0
    /\ p1 + half(win_h) + 1 < MatN
    /\ p2 - half(win_w) >= 0
    /\ p2 + half(win_w) + 1 < MatN

\* range(p - half + 1, p + half), lines 79-82.
WinRange(p, win) == (p - half(win) + 1) .. (p + half(win) - 1)

\* matrix[np.ix_(win_rows, win_cols)].todense(): a sequence of rows.
PatternWindow(zeros, p1, p2, win_h, win_w) ==
    [a \in 1 .. Cardinality(WinRange(p1, win_h)) |->
        [b \in 1 .. Cardinality(WinRange(p2, win_w)) |->
            MatrixAt(zeros, p1 - half(win_h) + a, p2 - half(win_w) + b)]]

Max2(a, b) == IF a >= b THEN a ELSE b

\* A count of missing pixels that leaves out the zero-valued ones.
TotUndetectedOnly(zeros, det, p1, p2, win_h, win_w) ==
    LET n_rows_w == 2 * (win_h \div 2) + 1
        n_cols_w == 2 * (win_w \div 2) + 1
        n_bad_rows == Cardinality(((p1 - win_h \div 2) .. (p1 + win_h \div 2)) \ det[1])
        n_bad_cols == Cardinality(((p2 - win_w \div 2) .. (p2 + win_w \div 2)) \ det[2])
    IN  n_bad_rows * n_cols_w + n_bad_cols * n_rows_w - n_bad_rows * n_bad_cols

\* tot_missing_pixels of lines 86-98.
TotMissing(zeros, det, p1, p2, win_h, win_w) ==
    LET win_rows == WinRange(p1, win_h)
        win_cols == WinRange(p2, win_w)
        n_rows_w == Cardinality(win_rows)
        n_cols_w == Cardinality(win_cols)
        n_bad_rows == n_rows_w - Cardinality(win_rows \cap det[1])
        n_bad_cols == n_cols_w - Cardinality(win_cols \cap det[2])
        tot_undetected_pixels ==
            n_bad_rows * n_cols_w + n_bad_cols * n_rows_w - n_bad_rows * n_bad_cols
        tot_zero_pixels ==
            Cardinality({x \in win_rows \X win_cols : MatrixAt(zeros, x[1], x[2]) = 0})
    IN  Max2(tot_undetected_pixels, tot_zero_pixels)

\* The coordinate with the smaller bin first (lines 67-70).
Canonical(l) == IF l[1] > l[2] THEN <<l[2], l[1]>> ELSE l

\* Whether candidate l passes both filters (lines 72-77 and 103).
Accepted(l, zeros, det, win_h, win_w, perc) ==
    LET p == Canonical(l)
        tot_pixels == Cardinality(WinRange(p[1], win_h)) * Cardinality(WinRange(p[2], win_w))
    IN  /\ InBounds(p[1], p[2], win_h, win_w)
        /\ TotMissing(zeros, det, p[1], p[2], win_h, win_w) * 100 < perc * tot_pixels

\* The row of validated_coords for candidate l: bin1 and bin2 as line 58 copies
\* them from coords, and the score line 104 reads at the coordinate.
CoordRow(l) == <<l[1], l[2], ConvMatAt(l[1], l[2])>>

\* Line 105 stores a window of 2 * half - 1 rows and columns in a slot of the
\* kernel's shape; numpy raises ValueError when the two shapes differ.
WindowFits(win_h, win_w) ==
    /\ 2 * half(win_h) - 1 = win_h
    /\ 2 * half(win_w) - 1 = win_w

validate_patterns(cs, zeros, det, win_h, win_w, perc) ==
    LET keep == [n \in 1 .. Len(cs) |-> Accepted(cs[n], zeros, det, win_h, win_w, perc)]
        rows == [n \in 1 .. Len(cs) |-> CoordRow(cs[n])]
        wins == [n \in 1 .. Len(cs) |->
                    IF keep[n]
                    THEN PatternWindow(zeros, Canonical(cs[n])[1], Canonical(cs[n])[2],
                                       win_h, win_w)
                    ELSE <<>>]
    IN  IF (\E n \in 1 .. Len(cs) : keep[n]) /\ ~WindowFits(win_h, win_w)
        THEN [error |-> "ValueError", filtered_coords |-> <<>>, filtered_windows |-> <<>>]
        ELSE [error |-> "", filtered_coords |-> SelectIdx(rows, keep, 1),
              filtered_windows |-> SelectIdx(wins, keep, 1)]

InitValidate ==
    /\ pc = "validate"
    /\ coords \in SeqsUpTo(CoordChoices, MaxCoords)
    /\ kernel_shape \in (1 .. MaxKernelDim) \X (1 .. MaxKernelDim)
    /\ hic_zeros \in ZeroChoices
    /\ \E bad_rows \in BadRowChoices, bad_cols \in BadColChoices :
          detectable_bins = <<Bins \ bad_rows, Bins \ bad_cols>>
    /\ max_undetected_perc \in PercChoices
    /\ validated = NoResult
    /\ pileup_pattern = NoArray
    /\ LabelIdle
    /\ PickIdle
    /\ ExploreIdle
    /\ CorrIdle
    /\ SmearIdle
    /\ AgglomIdle

ValidatePatterns ==
    /\ pc = "validate"
    /\ validated' = validate_patterns(coords, hic_zeros, detectable_bins,
                                      kernel_shape[1], kernel_shape[2],
                                      max_undetected_perc)
    /\ pc' = "validated"
    /\ UNCHANGED <<coords, kernel_shape, hic_zeros, detectable_bins,
                   max_undetected_perc, pileup_pattern,
                   labelVars, pickVars, exploreVars, corrVars, smearVars, agglomVars>>

\* pileup_patterns (lines 130-132): the median along the first axis of a
\* stack of windows, entry by entry; twice its value, for a nonempty stack.
pileup_patterns(pattern_windows) ==
    [a \in 1 .. Len(pattern_windows[1]) |->
        [b \in 1 .. Len(pattern_windows[1][1]) |->
            Median2([n \in 1 .. Len(pattern_windows) |-> pattern_windows[n][a][b]])]]

\* pattern_detector returns validate_patterns' two values as they are (lines
\* 182-190), and explore_patterns takes the second one, the 3D stack of
\* windows, as pileup_pattern (line 269) to append it to kernels[i] (line 283).
PatternDetectorReturn ==
    /\ pc = "validated"
    /\ validated.error = ""
    /\ pileup_pattern' = [ndim |-> 3, data |-> validated.filtered_windows]
    /\ pc' = "returned"
    /\ UNCHANGED <<coords, kernel_shape, hic_zeros, detectable_bins,
                   max_undetected_perc, validated,
                   labelVars, pickVars, exploreVars, corrVars, smearVars, agglomVars>>

NextValidate == ValidatePatterns \/ PatternDetectorReturn

SpecValidate == InitValidate /\ [][NextValidate]_vars

(***************************************************************************)
(* xcorr2 and corrcoef2d                                                   *)
(*                                                                         *)
(* Values are exact: a matrix is [sparse, shape, scale, data] and the      *)
(* entry at pixel p is data[p] / scale; data holds the stored (nonzero)    *)
(* entries.  A kernel is [sparse, shape, div, at] with entries at[x] / div.*)
(***************************************************************************)
MaxSig == 2
MaxKer == 3

\* threshold=1e-4 of xcorr2, as its inverse.
threshold_inv == 10000

RECURSIVE SumSet(_, _)
SumSet(S, f) ==
    IF S = {} THEN 0
    ELSE LET x == CHOOSE y \in S : TRUE IN f[x] + SumSet(S \ {x}, f)

ShapePixels(shape) == (0 .. shape[1] - 1) \X (0 .. shape[2] - 1)

SigAt(sig, r, c) == IF <<r, c>> \in DOMAIN sig.data THEN sig.data[<<r, c>>] ELSE 0

\* The stored entries of a map from pixels to values: the nonzero ones.
Stored(f) == [p \in {q \in DOMAIN f : f[q] # 0} |-> f[p]]

CorrError(e) == [NoCorr EXCEPT !.error = e]

\* np.allclose(kernel, np.tile(kernel[0, 0], kernel.shape)), line 555.
constant_kernel(ker) == \A x \in DOMAIN ker.at : ker.at[x] = ker.at[<<0, 0>>]

\* Lines 562-570: (l_subkernel_sp @ signal) @ r_subkernel_sp * constant_kernel,
\* a matrix of shape (sn - km + 1, sm - kn + 1).
ConstantPath(sig, ker) ==
    LET sm == sig.shape[1]  sn == sig.shape[2]
        km == ker.shape[1]  kn == ker.shape[2]
        W(i, j) == {x \in ShapePixels(ker.shape) : i + x[1] < sm /\ j + x[2] < sn}
    IN  [p \in ShapePixels(<<sn - km + 1, sm - kn + 1>>) |->
            ker.at[<<0, 0>>] *
            SumSet(W(p[1], p[2]),
                   [x \in W(p[1], p[2]) |-> SigAt(sig, p[1] + x[1], p[2] + x[2])])]

\* Lines 572-577: the sum over the kernel's columns kj of
\* subkernel_sp.dot(signal[:, kj : sn - kn + 1 + kj]).
GeneralPath(sig, ker) ==
    [p \in ShapePixels(<<sig.shape[1] - ker.shape[1] + 1,
                         sig.shape[2] - ker.shape[2] + 1>>) |->
        SumSet(ShapePixels(ker.shape),
               [x \in ShapePixels(ker.shape) |->
                   ker.at[x] * SigAt(sig, p[1] + x[1], p[2] + x[2])])]

\* Lines 583-591: entries below threshold are dropped, the others move by the
\* kernel's half height and width into a matrix of the signal's shape; the
\* coo_matrix constructor raises ValueError for an index outside the shape.
Margins(sig, ker, prod) ==
    LET kh == (ker.shape[1] - 1) \div 2
        kw == (ker.shape[2] - 1) \div 2
        scale == sig.scale * ker.div
        kept == {p \in DOMAIN prod : prod[p] * threshold_inv >= scale}
        moved == {<<p[1] + kh, p[2] + kw>> : p \in kept}
    IN  IF \E q \in moved : q \notin ShapePixels(sig.shape)
        THEN CorrError("ValueError")
        ELSE [error |-> "", shape |-> sig.shape, scale |-> scale,
              data |-> [q \in moved |-> prod[<<q[1] - kh, q[2] - kw>>]]]

\* The branch of lines 561-570, for a constant kernel; sp.diags rejects the
\* negative shapes of lines 562-567.
ConstantBranch(sig, ker) ==
    IF sig.shape[2] - ker.shape[1] + 1 < 0 \/ sig.shape[1] - ker.shape[2] + 1 < 0
    THEN CorrError("ValueError")
    ELSE Margins(sig, ker, ConstantPath(sig, ker))

\* The branch of lines 571-577, for any other kernel; subkernel_sp has
\* sn - km + 1 rows while out has sm - km + 1, and sparse matrices of
\* different shapes cannot be added.
GeneralBranch(sig, ker) ==
    IF sig.shape[2] - ker.shape[1] + 1 < 0 \/ sig.shape[2] # sig.shape[1]
    THEN CorrError("ValueError")
    ELSE Margins(sig, ker, GeneralPath(sig, ker))

xcorr2(sig, ker) ==
    LET sm == sig.shape[1]  sn == sig.shape[2]
        km == ker.shape[1]  kn == ker.shape[2]
    IN  IF ~sig.sparse THEN CorrError("ValueError")
        ELSE IF ker.sparse THEN CorrError("ValueError")
        ELSE IF (km > sm) \/ (sn > sn) THEN CorrError("ValueError")
        \* line 558: a sparse matrix cannot have a negative dimension
        ELSE IF sn - kn + 1 < 0 THEN CorrError("ValueError")
        ELSE IF constant_kernel(ker)
        THEN ConstantBranch(sig, ker)
        ELSE GeneralBranch(sig, ker)

\* signal.power(2)
power2(sig) ==
    [sig EXCEPT !.scale = sig.scale * sig.scale,
                !.data = [p \in DOMAIN sig.data |-> sig.data[p] * sig.data[p]]]

\* np.ones(kernel.shape), line 637.
kernel1(ker) == [sparse |-> FALSE, shape |-> ker.shape, div |-> 1,
                 at |-> [x \in ShapePixels(ker.shape) |-> 1]]

\* float(np.sum(kernel ** 2)), line 640.
kernel2(ker) == SumSet(DOMAIN ker.at, [x \in DOMAIN ker.at |-> ker.at[x] * ker.at[x]])

\* kernel / kernel.size, line 643.
kernel_mean(ker) == [ker EXCEPT !.div = ker.shape[1] * ker.shape[2]]

\* Lines 628-631: diagonal i of the upper triangle is copied on diagonal -i,
\* for i below the kernel's height.
set_lower_diags(sig, km) ==
    [sig EXCEPT !.data =
        Stored([p \in ShapePixels(sig.shape) |->
                   IF p[1] > p[2] /\ p[1] - p[2] < km
                   THEN SigAt(sig, p[2], p[1])
                   ELSE SigAt(sig, p[1], p[2])])]

\* A trimming that leaves every diagonal in place.
KeepAllDiagonals(data, d) == data

\* diag_trim(conv.todia(), max_dist) as test_diag_trim describes it: the shape
\* is kept and the diagonals above max_dist hold nothing.
diag_trim(data, d) == [p \in {q \in DOMAIN data : q[2] - q[1] <= d} |-> data[p]]

\* A matrix left as it is.
KeepLowerTriangle(data) == data

\* sp.triu(conv)
triu(data) == [p \in {q \in DOMAIN data : q[1] <= q[2]} |-> data[p]]

\* The value conv / denom of line 651 at a stored pixel of conv, kept exact as
\* num / sqrt(densq); densq = 0 is a division by zero, which numpy answers
\* with +inf.
Quotient(conv, signal2, ker, p) ==
    [num   |-> conv.data[p],
     densq |-> (ker.shape[1] * ker.shape[2]) * (ker.shape[1] * ker.shape[2])
               * SigAt(signal2, p[1], p[2]) * kernel2(ker)]

corrcoef2d(sig, ker, md, su) ==
    IF su /\ ~sig.sparse
    THEN CorrError("AttributeError")            \* signal.tolil(), line 629
    ELSE IF su /\ ker.shape[1] - 1 >= sig.shape[1]
    THEN CorrError("ValueError")                \* setdiag(..., -i), line 631
    ELSE
    LET signal1 == IF su THEN set_lower_diags(sig, ker.shape[1]) ELSE sig
        conv0   == xcorr2(signal1, ker)
        signal2 == xcorr2(power2(signal1), kernel1(ker))
        conv    == xcorr2(signal1, kernel_mean(ker))
        divided == [p \in DOMAIN conv.data |-> Quotient(conv, signal2, ker, p)]
        clipped == [p \in DOMAIN divided |->
                       IF divided[p].num < 0
                       THEN [num |-> 0, densq |-> 1] ELSE divided[p]]
        trimmed == IF md # NoMaxDist THEN diag_trim(clipped, md) ELSE clipped
    IN  IF conv0.error # "" THEN CorrError(conv0.error)
        ELSE IF signal2.error # "" THEN CorrError(signal2.error)
        ELSE IF conv.error # "" THEN CorrError(conv.error)
        ELSE [error |-> "", shape |-> conv.shape, scale |-> 1, data |-> triu(trimmed)]

\* The test of line 163.
TooSmall(sig, ker) == ker.shape[1] >= sig.shape[1]

\* Lines 162-181 of pattern_detector.  Line 170 and eliminate_zeros (line
\* 174) leave the entries of the correlation map that hold a nonzero value.
pattern_detector(sig, ker, md) ==
    IF TooSmall(sig, ker) THEN "None"
    ELSE LET conv == corrcoef2d(sig, ker, md, FALSE)
             trimmed == IF md # NoMaxDist THEN diag_trim(conv.data, md) ELSE conv.data
         IN  IF conv.error # "" THEN conv.error
             ELSE IF \A p \in DOMAIN trimmed : trimmed[p].num = 0 THEN "None"
             ELSE "picker"

\* ---- inputs
SignalValues == {3, 20}

\* Signals with at most two stored entries.
Signals(shape) ==
    UNION {[S -> SignalValues] :
              S \in {T \in SUBSET ShapePixels(shape) : Cardinality(T) <= 2}}

\* Kernels of ones with one corner entry of another value.
KernelPeaks == {-1, 1, 2}

Kernels(shape) ==
    {[x \in ShapePixels(shape) |-> IF x = c THEN v ELSE 1] :
        c \in {<<0, 0>>, <<shape[1] - 1, shape[2] - 1>>}, v \in KernelPeaks}

MaxDists == {NoMaxDist, 0, 1}

\* Dense signals and sparse kernels only meet the sanity checks, so they come
\* with one content each; sym_upper is for symmetric, hence square, signals.
InitCorr ==
    /\ pc = "corr"
    /\ \E sshape \in (1 .. MaxSig) \X (1 .. MaxSig), kshape \in (1 .. MaxKer) \X (1 .. MaxKer) :
        \E sdata \in Signals(sshape), kat \in Kernels(kshape), ssp \in BOOLEAN, ksp \in BOOLEAN :
            /\ (~ssp \/ ksp) => (sdata = <<>> /\ constant_kernel([at |-> kat]))
            /\ signal = [sparse |-> ssp, shape |-> sshape, scale |-> 1000, data |-> sdata]
            /\ kernel = [sparse |-> ksp, shape |-> kshape, div |-> 1, at |-> kat]
    /\ max_dist \in MaxDists
    /\ sym_upper \in {su \in BOOLEAN : su => signal.shape[1] = signal.shape[2]}
    /\ out = NoCorr
    /\ corr = NoCorr
    /\ detected = ""
    /\ LabelIdle
    /\ PickIdle
    /\ ExploreIdle
    /\ ValidateIdle
    /\ SmearIdle
    /\ AgglomIdle

Xcorr2 ==
    /\ pc = "corr"
    /\ out' = xcorr2(signal, kernel)
    /\ pc' = "xcorr2_done"
    /\ UNCHANGED <<signal, kernel, max_dist, sym_upper, corr, detected,
                   labelVars, pickVars, exploreVars, validateVars, smearVars, agglomVars>>

Corrcoef2d ==
    /\ pc = "corr"
    /\ corr' = corrcoef2d(signal, kernel, max_dist, sym_upper)
    /\ pc' = "corrcoef2d_done"
    /\ UNCHANGED <<signal, kernel, max_dist, sym_upper, out, detected,
                   labelVars, pickVars, exploreVars, validateVars, smearVars, agglomVars>>

\* pattern_detector(contact_map, kernel_config, kernel_matrix) of chromosight
\* with contact_map.matrix = signal, kernel_config["max_dist"] = max_dist and
\* contact_map.max_dist the same distance: the exception it lets through,
\* "None" when it returns (None, None) at line 164 or, the correlation map
\* being empty after line 173, at line 181, and "picker" when picker receives
\* a correlation map that stores a value.
PatternDetector ==
    /\ pc = "corr"
    /\ detected' = pattern_detector(signal, kernel, max_dist)
    /\ pc' = "pattern_detector_done"
    /\ UNCHANGED <<signal, kernel, max_dist, sym_upper, out, corr,
                   labelVars, pickVars, exploreVars, validateVars, smearVars, agglomVars>>

NextCorr == Xcorr2 \/ Corrcoef2d \/ PatternDetector

SpecCorr == InitCorr /\ [][NextCorr]_vars

(***************************************************************************)
(* remove_smears                                                           *)
(*                                                                         *)
(* patterns is a pandas table with the columns bin1, bin2 and score and    *)
(* the default index 0 .. n-1.  "p.row = ..." and "p.col = ..." (lines     *)
(* 312-313) name no column of the table: pandas stores them as attributes  *)
(* of the object p, and the columns bin1 and bin2, by which line 316       *)
(* groups, stay as they were.                                              *)
(***************************************************************************)
MaxPatterns == 2
MaxBin == 2

WinSizes == {1, 2}

PatternRows == {<<b1, b2, sc>> : b1 \in 0 .. MaxBin, b2 \in 0 .. MaxBin, sc \in Scores}

\* The key of line 316: groupby(["bin1", "bin2"]).
GroupKey(p, i) == <<p[i][1], p[i][2]>>

\* ["score"].idxmax() of the group of row i: the first row of the group
\* that holds its highest score.
IdxMax(p, i) ==
    LET group == {j \in 1 .. Len(p) : GroupKey(p, j) = GroupKey(p, i)}
    IN  CHOOSE j \in group :
            /\ \A k \in group : p[k][3] <= p[j][3]
            /\ \A k \in group : k < j => p[k][3] < p[j][3]

\* best_idx of line 316.
best_idx(p) == {IdxMax(p, i) : i \in 1 .. Len(p)}

\* good_patterns_mask (lines 317-323); for an empty table it stays empty.
remove_smears(p, w) == Array([i \in 1 .. Len(p) |-> i \in best_idx(p)])

InitSmears ==
    /\ pc = "smears"
    /\ patterns \in SeqsUpTo(PatternRows, MaxPatterns)
    /\ win_size \in WinSizes
    /\ good_patterns_mask = <<>>
    /\ LabelIdle
    /\ PickIdle
    /\ ExploreIdle
    /\ ValidateIdle
    /\ CorrIdle
    /\ AgglomIdle

RemoveSmears ==
    /\ pc = "smears"
    /\ good_patterns_mask' = remove_smears(patterns, win_size)
    /\ pc' = "smears_removed"
    /\ UNCHANGED <<patterns, win_size, labelVars, pickVars, exploreVars,
                   validateVars, corrVars, agglomVars>>

NextSmears == RemoveSmears

SpecSmears == InitSmears /\ [][NextSmears]_vars

(***************************************************************************)
(* pattern_detector of chromovision (detector.py), from the end of the     *)
(* loop over the matrices: pattern_windows holds the windows of the        *)
(* patterns detected in the call, in the order of their detection.  The    *)
(* same lines end pattern_detector of declooptor (lines 154-162).  Values  *)
(* are doubled as for Median2; nan stands for the median of an empty list. *)
(***************************************************************************)
MaxWindows == 3

Areas == {0, 1}
WindowValues == {0, 1, 2}

nan == -1

Side(a) == 2 * a + 1

\* np.zeros((area * 2 + 1, area * 2 + 1)) (lines 122-124).
Zeros(a) == Array([i \in 1 .. Side(a) |-> Array([j \in 1 .. Side(a) |-> 0])])

\* The windows matrix[np.ix_(...)] of lines 174-179 the model draws from: the
\* constant windows and, for area 1, one window that varies with the column.
Windows(a) ==
    {Array([i \in 1 .. Side(a) |-> Array([j \in 1 .. Side(a) |-> v])]) : v \in WindowValues}
    \cup {Array([i \in 1 .. Side(a) |-> Array([j \in 1 .. Side(a) |-> j - 1])])}

\* np.median(list_temp) doubled; nan for the empty list.
NanMedian2(list_temp) == IF Len(list_temp) = 0 THEN nan ELSE Median2(list_temp)

\* The loops of lines 197-203: el runs over range(1, len(pattern_windows)).
agglomerate(pattern_windows, a) ==
    Array([i \in 1 .. Side(a) |->
        Array([j \in 1 .. Side(a) |->
            NanMedian2(Array([el \in 1 .. Len(pattern_windows) - 1 |->
                                pattern_windows[el + 1][i][j]]))])])

InitAgglom ==
    /\ pc = "agglom"
    /\ area \in Areas
    /\ cv_pattern_windows \in SeqsUpTo(Windows(area), MaxWindows)
    /\ agglomerated_pattern = Zeros(area)
    /\ cv_nb_patterns = 0
    /\ LabelIdle
    /\ PickIdle
    /\ ExploreIdle
    /\ ValidateIdle
    /\ CorrIdle
    /\ SmearIdle

\* Lines 197-206.
Agglomerate ==
    /\ pc = "agglom"
    /\ agglomerated_pattern' = agglomerate(cv_pattern_windows, area)
    /\ cv_nb_patterns' = Len(cv_pattern_windows)
    /\ pc' = "agglomerated"
    /\ UNCHANGED <<area, cv_pattern_windows, labelVars, pickVars, exploreVars,
                   validateVars, corrVars, smearVars>>

NextAgglom == Agglomerate

SpecAgglom == InitAgglom /\ [][NextAgglom]_vars

(***************************************************************************)
(* The 8-way-connected components of a pixel set, by the definition: two   *)
(* pixels are adjacent when their rows and their columns differ by at most *)
(* 1, and a component is closed under chains of adjacent pixels.           *)
(***************************************************************************)
Adjacent8(p, q) == p # q /\ Abs(p[1] - q[1]) <= 1 /\ Abs(p[2] - q[2]) <= 1

RECURSIVE Grow8(_, _)
Grow8(C, S) ==
    LET T == C \cup {q \in S : \E p \in C : Adjacent8(p, q)}
    IN  IF T = C THEN C ELSE Grow8(T, S)

Component8(p, S) == Grow8({p}, S)

PixelSet(m) == {m[i] : i \in 1 .. Len(m)}

\* The label a labelled matrix stores at pixel p, 0 when it stores none.
LabelAt(fm, p) ==
    IF \E i \in 1 .. Len(fm) : <<fm[i][1], fm[i][2]>> = p
    THEN fm[CHOOSE i \in 1 .. Len(fm) : <<fm[i][1], fm[i][2]>> = p][3]
    ELSE 0

\* C1: two candidate pixels get the same nonzero label if and only if they
\* are in the same 8-way-connected component of candidate pixels and that
\* component has at least min_focus_size pixels.
C1_SameLabelIffSameComponent ==
    pc \in {"labelled", "relabelled"} =>
        \A p \in PixelSet(matrix), q \in PixelSet(matrix) :
            (LabelAt(foci_mat, p) # 0 /\ LabelAt(foci_mat, p) = LabelAt(foci_mat, q))
            <=> (/\ q \in Component8(p, PixelSet(matrix))
                 /\ Cardinality(Component8(p, PixelSet(matrix))) >= min_focus_size)

\* C2: when picker finds a candidate pixel, the array it returns has one row
\* per focus that survived the size filter, and row k is a pixel of the k-th
\* surviving focus.
C2_OneRowPerSurvivingFocus ==
    (pc = "picked" /\ Len(matrix) > 0) =>
        /\ ~foci_coords.is_none
        /\ Len(foci_coords.coords) = Len(UniqueLabels(foci_mat))
        /\ \A k \in 1 .. Len(foci_coords.coords) :
              LabelAt(foci_mat, foci_coords.coords[k]) = UniqueLabels(foci_mat)[k]

\* C8: labelling the labelled matrix again yields the focus count of the
\* first labelling.
C8_RelabelSameCount == pc = "relabelled" => relabel_num = num_foci


\* C3: in chromosight, after a pass whose count differs from the count of
\* the pass before it (0 before the first pass), and while fewer than
\* max_iterations passes have run, another pass is executed; so
\* explore_patterns cannot return in such a situation.
C3_NextPassWhenCountChanged ==
    (/\ variant = "chromosight" /\ pc = "done"
     /\ list_current_pattern_count # <<>>
     /\ passes < max_iterations.n)
    => LET n == Len(list_current_pattern_count)
       IN  list_current_pattern_count[n] =
              (IF n = 1 THEN 0 ELSE list_current_pattern_count[n - 1])

\* C4: in chromosight, a kernel for which pattern_detector returns
\* (None, None) does not abort explore_patterns.
C4_NoneDoesNotAbort == variant = "chromosight" => pc # "error"

SameBucket(p, q) ==
    IF variant = "chromosight"
    THEN /\ p[1] \div window = q[1] \div window
         /\ p[2] \div window = q[2] \div window
    ELSE /\ p[1] = q[1]
         /\ p[2] \div window = q[2] \div window
         /\ p[3] \div window = q[3] \div window

RealPatterns ==
    IF variant = "chromosight" THEN all_patterns
    ELSE {p \in all_patterns : p[2] # -1}

\* C9: at every point of explore_patterns no two patterns of the accumulated
\* set fall in the same bucket (row // window, col // window), per chromosome
\* in chromovision.
C9_OnePatternPerBucket ==
    variant \in {"chromosight", "chromovision"} =>
        \A p \in RealPatterns, q \in RealPatterns : SameBucket(p, q) => p = q

\* A second pass has started with patterns of both chromosomes in the same
\* bucket and with more rows read than patterns kept.
C9_Witness ==
    /\ variant = "chromovision" /\ passes = 2
    /\ <<"chr1", 4, 5, 2>> \in all_patterns
    /\ <<"chr2", 4, 5, 1>> \in all_patterns
    /\ <<"chr1", 3, 5, 1>> \in all_patterns
    /\ pc = "rows" /\ n_rows = 2

\* The iteration budget: max_iterations in chromosight, the smaller of
\* MAX_ITERATIONS and iterations in chromovision.
Budget ==
    IF variant = "chromosight" THEN max_iterations.n
    ELSE IF max_iterations.auto \/ max_iterations.n > MAX_ITERATIONS
         THEN MAX_ITERATIONS
         ELSE max_iterations.n

\* C10: explore_patterns never runs more matching passes than its budget,
\* and it terminates.
C10_BoundedPassesAndTermination ==
    /\ [](variant \in {"chromosight", "chromovision"} => passes <= Budget)
    /\ <>(pc \in {"done", "error"})

\* chromovision stopped on its budget while the count was still changing.
C10_Witness ==
    /\ variant = "chromovision" /\ pc = "done"
    /\ passes = MAX_ITERATIONS
    /\ old_pattern_count # current_pattern_count

\* C5: every row of the table validate_patterns returns has bin1 <= bin2,
\* whatever the order of the two bins in the candidate coordinates.
C5_ReturnedRowsCanonical ==
    (pc = "validated" /\ validated.error = "") =>
        \A n \in 1 .. Len(validated.filtered_coords) :
            validated.filtered_coords[n][1] <= validated.filtered_coords[n][2]

\* A value num / sqrt(densq) that lies in [0, 1]; densq = 0 is +inf.
InUnitInterval(v) == v.num >= 0 /\ v.densq > 0 /\ v.num * v.num <= v.densq

\* C6: for a nonnegative sparse signal and any kernel, every stored value of
\* the matrix corrcoef2d returns lies in [0, 1].
C6_CorrelationInUnitInterval ==
    (pc = "corrcoef2d_done" /\ corr.error = "") =>
        \A p \in DOMAIN corr.data : InUnitInterval(corr.data[p])

\* The inputs the sanity checks are meant to refuse.
InvalidInput ==
    \/ ~signal.sparse
    \/ kernel.sparse
    \/ kernel.shape[1] > signal.shape[1]
    \/ kernel.shape[2] > signal.shape[2]

\* C7: xcorr2 and corrcoef2d raise ValueError when the signal is dense, the
\* kernel is sparse, or the kernel is taller or wider than the signal, with
\* sym_upper false or true.
C7_InvalidInputRaisesValueError ==
    /\ (pc = "xcorr2_done" /\ InvalidInput) => out.error = "ValueError"
    /\ (pc = "corrcoef2d_done" /\ InvalidInput) => corr.error = "ValueError"

\* The last recorded pass counted as many patterns as the pass before it.
CountStable ==
    /\ Len(list_current_pattern_count) >= 2
    /\ list_current_pattern_count[Len(list_current_pattern_count)]
         = list_current_pattern_count[Len(list_current_pattern_count) - 1]

C12_NextKernelIsMedianPileup ==
    (pc = "returned" /\ Len(validated.filtered_windows) > 0) =>
        /\ pileup_pattern.ndim = 2
        /\ \A a \in 1 .. Len(pileup_pattern.data) :
              \A b \in 1 .. Len(pileup_pattern.data[a]) :
                 2 * pileup_pattern.data[a][b]
                    = pileup_patterns(validated.filtered_windows)[a][b]

\* The window validate_patterns extracts for candidate l.
WindowOf(l) ==
    PatternWindow(hic_zeros, Canonical(l)[1], Canonical(l)[2],
                  kernel_shape[1], kernel_shape[2])

IsAccepted(l) ==
    Accepted(l, hic_zeros, detectable_bins, kernel_shape[1], kernel_shape[2],
             max_undetected_perc)

\* C13: for every kernel shape, odd or even, the window extracted for an
\* accepted pattern has the kernel's height and width.
C13_WindowHasKernelShape ==
    pc = "validated" =>
        \A n \in 1 .. Len(coords) :
            IsAccepted(coords[n]) =>
                /\ Len(WindowOf(coords[n])) = kernel_shape[1]
                /\ Len(WindowOf(coords[n])[1]) = kernel_shape[2]

\* The rows and columns of the window of candidate l.
WindowRows(l) == WinRange(Canonical(l)[1], kernel_shape[1])
WindowCols(l) == WinRange(Canonical(l)[2], kernel_shape[2])

WindowPastBounds(l) ==
    \/ \E r \in WindowRows(l) : r < 0 \/ r >= MatN
    \/ \E c \in WindowCols(l) : c < 0 \/ c >= MatN

\* The candidates of the returned rows.
ReturnedCandidates ==
    {<<validated.filtered_coords[k][1], validated.filtered_coords[k][2]>> :
        k \in 1 .. Len(validated.filtered_coords)}

\* C14: no candidate whose window extends past the matrix bounds is in the
\* returned table, whatever the scores and the detectable bins.
C14_PastBoundsRejected ==
    (pc = "validated" /\ validated.error = "") =>
        \A n \in 1 .. Len(coords) :
            WindowPastBounds(coords[n]) => coords[n] \notin ReturnedCandidates

\* A candidate past the bounds was rejected while another one was accepted.
C14_Witness ==
    /\ pc = "validated" /\ validated.error = ""
    /\ Len(validated.filtered_coords) = 1
    /\ \E n \in 1 .. Len(coords) : WindowPastBounds(coords[n])
    /\ detectable_bins[1] # Bins

\* The window of candidate l holds missing pixels only: all its rows and
\* columns are undetectable, or all its values are zero.
AllMissing(l) ==
    \/ /\ WindowRows(l) \cap detectable_bins[1] = {}
       /\ WindowCols(l) \cap detectable_bins[2] = {}
    \/ \A x \in WindowRows(l) \X WindowCols(l) : MatrixAt(hic_zeros, x[1], x[2]) = 0

NoAllMissingReturned ==
    (pc = "validated" /\ validated.error = "") =>
        \A n \in 1 .. Len(coords) :
            AllMissing(coords[n]) => coords[n] \notin ReturnedCandidates

\* C15 as stated: a candidate whose window is entirely missing is rejected
\* for every value of max_undetected_perc.
C15_AllMissingRejectedForEveryPerc == NoAllMissingReturned

\* C15: a candidate whose window is entirely missing is rejected for every
\* max_undetected_perc up to 100.
C15_AllMissingRejectedUpTo100 ==
    max_undetected_perc <= 100 => NoAllMissingReturned

\* With a tolerance of 100, a window without values was rejected and a
\* window with values accepted.
C15_Witness ==
    /\ pc = "validated" /\ validated.error = ""
    /\ max_undetected_perc = 100
    /\ Len(validated.filtered_coords) = 1
    /\ \E n \in 1 .. Len(coords) :
          /\ AllMissing(coords[n])
          /\ ~WindowPastBounds(coords[n])
          /\ InBounds(Canonical(coords[n])[1], Canonical(coords[n])[2],
                      kernel_shape[1], kernel_shape[2])

\* The order-preserving choices of m indices among 1 .. n.
Embeddings(m, n) ==
    {f \in [1 .. m -> 1 .. n] : \A j, k \in 1 .. m : j < k => f[j] < f[k]}

\* C16: the returned table is the input list without the rejected entries,
\* in the input order, and window k is the window of the k-th returned row.
C16_TableIsFilteredInput ==
    (pc = "validated" /\ validated.error = "") =>
        /\ Len(validated.filtered_windows) = Len(validated.filtered_coords)
        /\ \E f \in Embeddings(Len(validated.filtered_coords), Len(coords)) :
              /\ \A n \in 1 .. Len(coords) :
                    IsAccepted(coords[n]) <=> \E k \in DOMAIN f : f[k] = n
              /\ \A k \in DOMAIN f :
                    /\ validated.filtered_coords[k][1] = coords[f[k]][1]
                    /\ validated.filtered_coords[k][2] = coords[f[k]][2]
                    /\ validated.filtered_windows[k] = WindowOf(coords[f[k]])

\* Two different candidates were accepted.
C16_Witness ==
    /\ pc = "validated" /\ validated.error = ""
    /\ Len(validated.filtered_coords) = 2
    /\ validated.filtered_coords[1] # validated.filtered_coords[2]

\* C17: with max_dist = d, the matrix corrcoef2d returns has the signal's
\* shape and stores nothing at a position with |col - row| > d.
C17_NothingBeyondMaxDist ==
    (pc = "corrcoef2d_done" /\ corr.error = "" /\ max_dist # NoMaxDist) =>
        /\ corr.shape = signal.shape
        /\ \A p \in DOMAIN corr.data : Abs(p[2] - p[1]) <= max_dist

\* The correlation has a value above the diagonal and one on it, and
\* max_dist = 0 kept the second only.
C17_Witness ==
    /\ pc = "corrcoef2d_done" /\ corr.error = "" /\ max_dist = 0
    /\ DOMAIN corr.data # {}
    /\ \E p \in DOMAIN corrcoef2d(signal, kernel, NoMaxDist, sym_upper).data :
          p[2] > p[1]

\* C18: the matrix corrcoef2d returns stores nothing below the main diagonal,
\* with sym_upper true or false and with or without max_dist.
C18_UpperTriangleOnly ==
    (pc = "corrcoef2d_done" /\ corr.error = "") =>
        \A p \in DOMAIN corr.data : p[1] <= p[2]

\* The signal has a value below the diagonal, which a 1x1 kernel correlates
\* in place, and the result keeps another entry.
C18_Witness ==
    /\ pc = "corrcoef2d_done" /\ corr.error = ""
    /\ kernel.shape = <<1, 1>> /\ kernel.at[<<0, 0>>] > 0
    /\ \E p \in DOMAIN signal.data : p[1] > p[2] /\ signal.data[p] = 20
    /\ DOMAIN corr.data # {}

\* C19: for a sparse signal, square or rectangular, and a constant kernel,
\* xcorr2's constant-kernel shortcut returns what the general path returns
\* on the same input.
C19_ShortcutEqualsGeneralPath ==
    (/\ pc = "xcorr2_done"
     /\ signal.sparse /\ ~kernel.sparse
     /\ constant_kernel(kernel)
     /\ kernel.shape[1] <= signal.shape[1]
     /\ kernel.shape[2] <= signal.shape[2])
        => out = GeneralBranch(signal, kernel)

\* C20: picker returns None exactly when no pixel of the correlation map has
\* a value of at least median + precision * MAD; otherwise it returns an
\* array of coordinates.
C20_NoneIffNoCandidate ==
    pc = "picked" =>
        (foci_coords.is_none <=>
            LET thres4 == Thres4(mat_conv, precision)
            IN  ~\E i \in 1 .. Len(mat_conv) : 4 * mat_conv[i][3] >= thres4)

\* A map whose values all lie below the threshold: None is returned.
C20_Witness ==
    /\ pc = "picked"
    /\ Len(mat_conv) >= 2
    /\ foci_coords.is_none

\* C21: in the labelled matrix every stored label is at least 1, every label
\* present is carried by at least min_focus_size pixels, every labelled pixel
\* is a candidate pixel of the input, and no pixel of a focus smaller than
\* min_focus_size is stored.
C21_LabelledMatrixWellFormed ==
    pc \in {"labelled", "relabelled"} =>
        /\ \A i \in 1 .. Len(foci_mat) :
              /\ foci_mat[i][3] >= 1
              /\ Cardinality({j \in 1 .. Len(foci_mat) : foci_mat[j][3] = foci_mat[i][3]})
                    >= min_focus_size
              /\ <<foci_mat[i][1], foci_mat[i][2]>> \in PixelSet(matrix)
        /\ \A p \in PixelSet(matrix) :
              Cardinality(Component8(p, PixelSet(matrix))) < min_focus_size
                  => LabelAt(foci_mat, p) = 0

\* A focus was kept and a smaller one was removed.
C21_Witness ==
    /\ pc = "labelled"
    /\ min_focus_size >= 2
    /\ Len(foci_mat) >= 2
    /\ Len(foci_mat) < Len(matrix)

\* C30: two pixels under the same nonzero label are joined by a chain of
\* 8-way-adjacent candidate pixels.
C30_SameLabelSameComponent ==
    pc \in {"labelled", "relabelled"} =>
        \A i \in 1 .. Len(foci_mat), j \in 1 .. Len(foci_mat) :
            foci_mat[i][3] = foci_mat[j][3] =>
                <<foci_mat[j][1], foci_mat[j][2]>>
                    \in Component8(<<foci_mat[i][1], foci_mat[i][2]>>, PixelSet(matrix))

\* Two components were labelled, one of them with several pixels.
C30_Witness ==
    /\ pc = "labelled"
    /\ \E i \in 1 .. Len(foci_mat), j \in 1 .. Len(foci_mat) :
          i # j /\ foci_mat[i][3] = foci_mat[j][3]
    /\ \E i \in 1 .. Len(foci_mat), j \in 1 .. Len(foci_mat) :
          foci_mat[i][3] # foci_mat[j][3]

\* C22: for a contact map whose row or column dimension is not larger than
\* the kernel's, pattern_detector returns (None, None) and raises nothing.
\* A call that hands a nonempty correlation map to picker returns what lines
\* 177-190 make of it; the formula asks of the other calls that they end
\* with (None, None), so it fails on an exception only.
C22_TooSmallMapRaisesNothing ==
    (/\ pc = "pattern_detector_done"
     /\ signal.sparse /\ ~kernel.sparse
     /\ (signal.shape[1] <= kernel.shape[1] \/ signal.shape[2] <= kernel.shape[2]))
        => detected \in {"None", "picker"}

\* The rows of the table that fall in the window of row i.
SmearGroup(i) ==
    {j \in 1 .. Len(patterns) :
        /\ patterns[j][1] \div win_size = patterns[i][1] \div win_size
        /\ patterns[j][2] \div win_size = patterns[i][2] \div win_size}

\* C23: in each group of patterns that fall in the same window
\* (bin1 // win_size, bin2 // win_size), remove_smears marks exactly one
\* pattern as valid, one with the highest score of the group, and every
\* other pattern of the group as a smear.
C23_OneValidPatternPerWindow ==
    pc = "smears_removed" =>
        \A i \in 1 .. Len(patterns) :
            /\ Cardinality({j \in SmearGroup(i) : good_patterns_mask[j]}) = 1
            /\ \A j \in SmearGroup(i) :
                  good_patterns_mask[j] =>
                      \A k \in SmearGroup(i) : patterns[k][3] <= patterns[j][3]

\* C24: chromovision's explore_patterns always executes the first pass, and
\* with iterations an integer n it executes at most n passes after the first.
C24_FirstPassThenAtMostN ==
    (variant = "chromovision" /\ pc = "done") =>
        /\ passes >= 1
        /\ ~max_iterations.auto => passes - 1 <= max_iterations.n

\* The bins of a window of win bins centred on bin p.
KernelRange(p, win) == (p - win \div 2) .. (p - win \div 2 + win - 1)

KernelWindowInside(l) ==
    /\ KernelRange(Canonical(l)[1], kernel_shape[1]) \subseteq Bins
    /\ KernelRange(Canonical(l)[2], kernel_shape[2]) \subseteq Bins

\* max(undetected, zero) over the kernel-sized window of candidate l.
KernelWindowMissing(l) ==
    LET rows == KernelRange(Canonical(l)[1], kernel_shape[1])
        cols == KernelRange(Canonical(l)[2], kernel_shape[2])
        bad_rows == Cardinality(rows \ detectable_bins[1])
        bad_cols == Cardinality(cols \ detectable_bins[2])
        undetected == bad_rows * kernel_shape[2] + bad_cols * kernel_shape[1]
                      - bad_rows * bad_cols
        zero == Cardinality({x \in rows \X cols : MatrixAt(hic_zeros, x[1], x[2]) = 0})
    IN  Max2(undetected, zero)

\* C25: validate_patterns accepts a candidate if and only if its kernel-sized
\* window centred on the canonical coordinate lies inside the matrix and
\* max(undetected, zero) / total < max_undetected_perc / 100.
C25_AcceptedIffInsideAndDetected ==
    (pc = "validated" /\ validated.error = "") =>
        \A n \in 1 .. Len(coords) :
            coords[n] \in ReturnedCandidates
            <=> (/\ KernelWindowInside(coords[n])
                 /\ KernelWindowMissing(coords[n]) * 100
                       < max_undetected_perc * kernel_shape[1] * kernel_shape[2])


\* C26: in explore_patterns a pattern once added to the accumulated set is
\* never removed or replaced, and a detection that falls in an occupied bucket
\* is discarded, whatever its score: each step keeps every pattern, and a
\* pattern it adds is in a bucket no kept pattern occupies.
C26_KeptPatternsAreNeverReplaced ==
    [][/\ all_patterns \subseteq all_patterns'
       /\ \A x \in all_patterns' \ all_patterns :
             \A y \in all_patterns : PatternHash(y) # PatternHash(x)]_vars

\* A pass after the first has read, and dropped, a row that scores higher
\* than the pattern kept in its bucket: with one kernel and a first count of
\* 1 the first pass dropped nothing.
C26_Witness ==
    /\ variant = "chromovision" /\ n_kernels = 1
    /\ Len(list_current_pattern_count) >= 1
    /\ list_current_pattern_count[1] = 1
    /\ better_discarded
    /\ \A x \in all_patterns : x[2] # -1 => PatternScore(x) = 1

\* The pixels of the k-th surviving focus of the labelled matrix.
FocusPixels(k) ==
    {<<foci_mat[i][1], foci_mat[i][2]>> :
        i \in {j \in 1 .. Len(foci_mat) : foci_mat[j][3] = UniqueLabels(foci_mat)[k]}}

\* The place of the entry of pixel p in the correlation map as stored.
StoredAt(p) == CHOOSE i \in 1 .. Len(mat_conv) : <<mat_conv[i][1], mat_conv[i][2]>> = p

\* Row k of foci_coords is a pixel of the k-th surviving focus with the
\* highest correlation of the focus.
IsMaxOfFocus(k) ==
    /\ foci_coords.coords[k] \in FocusPixels(k)
    /\ \A q \in FocusPixels(k) :
          ConvAt(mat_conv, q) <= ConvAt(mat_conv, foci_coords.coords[k])

\* The pixels of the k-th surviving focus tied with row k of foci_coords.
TiedWith(k) ==
    {q \in FocusPixels(k) \ {foci_coords.coords[k]} :
        ConvAt(mat_conv, q) = ConvAt(mat_conv, foci_coords.coords[k])}

LocatedPatterns == {x \in all_patterns : x[2] # -1}

\* C28: explore_patterns records exactly one count in
\* list_current_pattern_count per executed pass, and the count is the number
\* of patterns detected in the pass over all its kernels: after the first
\* pass it is at least the number of patterns that pass has accumulated.
C28_OneCountPerPassOverAllKernels ==
    pc \in {"loop", "done"} =>
        /\ Len(list_current_pattern_count) = passes
        /\ passes = 1 => list_current_pattern_count[1] >= Cardinality(LocatedPatterns)

\* The first half of C28 alone.
C28_OneCountPerPass ==
    pc \in {"loop", "done"} => Len(list_current_pattern_count) = passes

\* Twice the median of entry (i, j) over all the windows of the call.
MedianOfAllWindows2(i, j) ==
    Median2(Array([el \in 1 .. Len(cv_pattern_windows) |-> cv_pattern_windows[el][i][j]]))

\* C29: the agglomerated pattern pattern_detector returns is the element-wise
\* median over all the windows of the patterns detected in the call, the
\* first one included.
C29_AgglomeratedIsMedianOfAllWindows ==
    (pc = "agglomerated" /\ Len(cv_pattern_windows) >= 1) =>
        \A i \in 1 .. Side(area), j \in 1 .. Side(area) :
            agglomerated_pattern[i][j] = MedianOfAllWindows2(i, j)

=============================================================================
